---- MODULE Spec2Model ----
(***************************************************************************)
(* LiteGS input preparation scripts.                                       *)
(*                                                                         *)
(*   scripts/prepare_video.py  (the Frame Extractor)                       *)
(*   scripts/run_colmap.py     (the Reconstruction Runner)                 *)
(*                                                                         *)
(* One behaviour is one run of one of the two scripts, from an arbitrary   *)
(* command line and filesystem.  The external executables (ffmpeg and      *)
(* colmap) are opaque subprocesses: each returns some exit code and leaves *)
(* some output on disk.                                                    *)
(***************************************************************************)
EXTENDS Integers, Sequences, FiniteSets, TLC

\* Largest frame index the images directory or one extraction can hold.
MaxFrames == 3
\* Largest exit code an external subprocess returns.
MaxRc == 2

VARIABLES
    tool,         \* which script runs: "prepare_video" or "run_colmap"
    args,         \* the parsed command line (argparse.Namespace)
    path,         \* which executables exist: ffmpeg on PATH, colmap candidates
    fs,           \* the filesystem
    fs0,          \* the filesystem as it was before the run
    pc,           \* position of main()
    exe,          \* the resolved executable ("" while unresolved)
    calls,        \* subprocess.run invocations started, in order
    argv,         \* the path arguments of each invocation started
    rcs,          \* proc.returncode of the invocations that have returned
    frames,       \* local `frames` of prepare_video.main (line 85)
    out,          \* messages printed to stdout/stderr, in order
    exit_status   \* <<>> while running, <<code>> once the process has exited

vars == <<tool, args, path, fs, fs0, pc, exe, calls, argv, rcs, frames, out, exit_status>>

FrameIdx == 1..MaxFrames
RetCodes == 0..MaxRc
Tags == {"none", "old", "new"}

----------------------------------------------------------------------------
(* Filesystem *)

\* The part of the filesystem the two scripts look at.  A file is "none"
\* (absent), "old" (left by an earlier run) or "new" (written by this run).
EmptyFs ==
    [ video      |-> FALSE,                       \* --video exists
      images     |-> FALSE,                       \* --images exists
      out_root   |-> FALSE,                       \* --out exists
      images_dir |-> FALSE,                       \* <out>/images exists
      frame      |-> [i \in FrameIdx |-> "none"], \* <out>/images/frame_%05d.png
      sparse     |-> FALSE,                       \* <out>/sparse exists
      db         |-> "none",                      \* <out>/database.db
      model_bin  |-> "none",                      \* <out>/sparse/0/*.bin
      model_txt  |-> "none" ]                     \* <out>/sparse/0/*.txt

\* Frames frame_00001.png .. frame_<m>.png left by an earlier extraction.
EarlierFrames(m) == [i \in FrameIdx |-> IF i <= m THEN "old" ELSE "none"]

\* images_dir.glob("frame_*.png")
Glob(f) == {i \in FrameIdx : f.frame[i] # "none"}

\* images_dir.mkdir(parents=True, exist_ok=True)
MkdirImages(f) == [f EXCEPT !.out_root = TRUE, !.images_dir = TRUE]

\* out_root.mkdir(parents=True, exist_ok=True); sparse_dir.mkdir(exist_ok=True)
MkdirSparse(f) == [f EXCEPT !.out_root = TRUE, !.sparse = TRUE]

\* model_dir.exists()
ModelDirExists(f) == f.model_bin # "none"

----------------------------------------------------------------------------
(* Executable resolution *)

\* The bundled candidates of ensure_colmap, in the order of the list.
Candidates == <<"tools/colmap/COLMAP.bat", "tools/colmap/bin/colmap.exe", "tools/colmap/bin/colmap">>

RECURSIVE FirstExisting(_, _)
\* for c in candidates: if c.exists(): return str(c)
FirstExisting(present, i) ==
    IF i > Len(Candidates) THEN ""
    ELSE IF Candidates[i] \in present THEN Candidates[i]
    ELSE FirstExisting(present, i + 1)

\* ensure_colmap preferring the PATH lookup to the bundled candidates.
ensure_colmap_PathFirst(p) ==
    IF p.which_colmap THEN "PATH/colmap" ELSE FirstExisting(p.colmap, 1)

\* ensure_colmap(): the bundled candidates, then shutil.which("colmap");
\* "" stands for the FileNotFoundError.
ensure_colmap(p) ==
    IF FirstExisting(p.colmap, 1) # "" THEN FirstExisting(p.colmap, 1)
    ELSE IF p.which_colmap THEN "PATH/colmap"
    ELSE ""

\* ensure_ffmpeg falling back to the bare command name instead of raising.
ensure_ffmpeg_NoRaise(p) == IF p.which_ffmpeg THEN "PATH/ffmpeg" ELSE "ffmpeg"

\* ensure_ffmpeg(): shutil.which("ffmpeg"); "" stands for the FileNotFoundError.
ensure_ffmpeg(p) == IF p.which_ffmpeg THEN "PATH/ffmpeg" ELSE ""

\* Exit status of the interpreter when an exception leaves main() uncaught.
UncaughtExit == 1

----------------------------------------------------------------------------
(* Initial states *)

\* subprocess started without being waited on.
Running_Never == FALSE

\* subprocess.run blocks: an invocation started has not returned yet.
Running == Len(calls) > Len(rcs)
Exited == exit_status # <<>>
ExitCode == exit_status[1]
LastRc == rcs[Len(rcs)]

InitFrameExtractor ==
    /\ tool = "prepare_video"
    /\ \E ow \in BOOLEAN : args = [overwrite |-> ow, matcher |-> "sequential"]
    /\ \E w \in BOOLEAN : path = [which_ffmpeg |-> w, which_colmap |-> FALSE, colmap |-> {}]
    /\ \E v \in BOOLEAN, d \in BOOLEAN, m \in 0..MaxFrames :
          /\ (m > 0) => d
          /\ fs = [EmptyFs EXCEPT !.video = v, !.out_root = d, !.images_dir = d,
                                  !.frame = EarlierFrames(m)]

InitReconstructionRunner ==
    /\ tool = "run_colmap"
    /\ \E mt \in {"sequential", "exhaustive"} : args = [overwrite |-> FALSE, matcher |-> mt]
    /\ \E w \in BOOLEAN, c \in SUBSET {Candidates[i] : i \in 1..Len(Candidates)} :
          path = [which_ffmpeg |-> FALSE, which_colmap |-> w, colmap |-> c]
    /\ \E im \in BOOLEAN, o \in BOOLEAN, s \in BOOLEAN,
          d \in {"none", "old"}, b \in {"none", "old"}, t \in {"none", "old"} :
          /\ s => o
          /\ (d # "none") => o
          /\ (b # "none") => s
          /\ (t # "none") => (b # "none")
          /\ fs = [EmptyFs EXCEPT !.images = im, !.out_root = o, !.sparse = s,
                                  !.db = d, !.model_bin = b, !.model_txt = t]

Init ==
    /\ InitFrameExtractor \/ InitReconstructionRunner
    /\ fs0 = fs
    /\ pc = "start"
    /\ exe = ""
    /\ calls = <<>>
    /\ argv = <<>>
    /\ rcs = <<>>
    /\ frames = {}
    /\ out = <<>>
    /\ exit_status = <<>>

\* sys.exit(code), with the message printed on the way out
Exit(code, msg) ==
    /\ exit_status' = <<code>>
    /\ out' = Append(out, msg)
    /\ pc' = "exited"

----------------------------------------------------------------------------
(* prepare_video.py *)

\* The validation of the input video left out.
VideoMissing_Never(f) == FALSE

\* not video_path.exists()
VideoMissing(f) == ~f.video

\* The guard with the `not` of `not args.overwrite` lost.
GuardAborts_MissingNot(a, f) == a.overwrite /\ Glob(f) # {}

\* not args.overwrite and list(images_dir.glob("frame_*.png")) is non-empty
GuardAborts(a, f) == ~a.overwrite /\ Glob(f) # {}

\* What the ffmpeg subprocess leaves on disk when it writes n frames through
\* the pattern frame_%05d.png: frame_00001.png .. frame_<n>.png are
\* (re)written, every other file of the directory stays as it was.
FfmpegWrites(f, n) ==
    [f EXCEPT !.frame = [i \in FrameIdx |-> IF i <= n THEN "new" ELSE f.frame[i]]]

\* The failure branch returning a fixed 1 instead of proc.returncode.
ReturnOnFailure_One(rc) == 1

\* return proc.returncode
ReturnOnFailure(rc) == rc

\* The paths of the ffmpeg command: -i str(video_path), output str(pattern).
FfmpegPaths == [input |-> "video", output |-> "out/images/frame_%05d.png"]

\* ffmpeg = ensure_ffmpeg()
ResolveFfmpeg ==
    /\ tool = "prepare_video" /\ pc = "start"
    /\ IF ensure_ffmpeg(path) = ""
         THEN Exit(UncaughtExit, "FileNotFoundError") /\ UNCHANGED exe
         ELSE /\ exe' = ensure_ffmpeg(path)
              /\ pc' = "validate"
              /\ UNCHANGED <<out, exit_status>>
    /\ UNCHANGED <<tool, args, path, argv, fs, fs0, calls, rcs, frames>>

\* if not video_path.exists(): return 1
ValidateVideo ==
    /\ tool = "prepare_video" /\ pc = "validate"
    /\ IF VideoMissing(fs)
         THEN Exit(1, "video not found")
         ELSE pc' = "mkdir" /\ UNCHANGED <<out, exit_status>>
    /\ UNCHANGED <<tool, args, path, argv, fs, fs0, exe, calls, rcs, frames>>

\* images_dir.mkdir(parents=True, exist_ok=True)
MakeImagesDir ==
    /\ tool = "prepare_video" /\ pc = "mkdir"
    /\ fs' = MkdirImages(fs)
    /\ pc' = "guard"
    /\ UNCHANGED <<tool, args, path, argv, fs0, exe, calls, rcs, frames, out, exit_status>>

\* if not args.overwrite: existing = ...; if existing: return 1
Guard ==
    /\ tool = "prepare_video" /\ pc = "guard"
    /\ IF GuardAborts(args, fs)
         THEN Exit(1, "frames exist, use --overwrite")
         ELSE pc' = "ffmpeg" /\ UNCHANGED <<out, exit_status>>
    /\ UNCHANGED <<tool, args, path, argv, fs, fs0, exe, calls, rcs, frames>>

\* print(cmd); subprocess.run(cmd, ...) is entered
StartFfmpeg ==
    /\ tool = "prepare_video" /\ pc = "ffmpeg" /\ ~Running
    /\ calls' = Append(calls, IF args.overwrite THEN "ffmpeg -y" ELSE "ffmpeg -n")
    /\ argv' = Append(argv, FfmpegPaths)
    /\ out' = Append(out, "command")
    /\ UNCHANGED <<tool, args, path, fs, fs0, pc, exe, rcs, frames, exit_status>>

\* subprocess.run returns: the tool has written n frames and ended with rc
FfmpegReturns ==
    /\ tool = "prepare_video" /\ pc = "ffmpeg" /\ Running
    /\ \E rc \in RetCodes, n \in 0..MaxFrames :
          /\ rcs' = Append(rcs, rc)
          /\ fs' = FfmpegWrites(fs, n)
    /\ pc' = "returned"
    /\ UNCHANGED <<tool, args, path, argv, fs0, exe, calls, frames, out, exit_status>>

\* if proc.returncode != 0: ...; return proc.returncode
CheckReturnCode ==
    /\ tool = "prepare_video" /\ pc = "returned"
    /\ IF LastRc # 0
         THEN Exit(ReturnOnFailure(LastRc), "ffmpeg failed")
         ELSE pc' = "list" /\ UNCHANGED <<out, exit_status>>
    /\ UNCHANGED <<tool, args, path, argv, fs, fs0, exe, calls, rcs, frames>>

\* frames = sorted(images_dir.glob("frame_*.png"))
ListFrames ==
    /\ tool = "prepare_video" /\ pc = "list"
    /\ frames' = Glob(fs)
    /\ pc' = "report"
    /\ UNCHANGED <<tool, args, path, argv, fs, fs0, exe, calls, rcs, out, exit_status>>

\* if not frames: return 1;  print(len(frames)); return 0
Report ==
    /\ tool = "prepare_video" /\ pc = "report"
    /\ IF frames = {}
         THEN Exit(1, "no frames generated")
         ELSE Exit(0, "frames generated")
    /\ UNCHANGED <<tool, args, path, argv, fs, fs0, exe, calls, rcs, frames>>

\* The frame count the final message reports: len(frames)
ReportedCount == Cardinality(frames)

FrameExtractor ==
    \/ ResolveFfmpeg
    \/ ValidateVideo
    \/ MakeImagesDir
    \/ Guard
    \/ StartFfmpeg
    \/ FfmpegReturns
    \/ CheckReturnCode
    \/ ListFrames
    \/ Report

----------------------------------------------------------------------------
(* run_colmap.py *)

\* The validation testing out_root instead of images.
ImagesMissing_ChecksOut(f) == ~f.out_root

\* not images.exists()
ImagesMissing(f) == ~f.images

\* The pipeline of main(): the positions at which run_cmd is called.
Stages == <<"feature_extractor", "matcher", "mapper", "model_converter">>

StageSet == {Stages[i] : i \in 1..Len(Stages)}

\* The colmap subcommand each call of run_cmd passes (feat_cmd, match_cmd,
\* mapper_cmd, converter_cmd).
StageCmd(stage, a) ==
    IF stage = "matcher"
      THEN (IF a.matcher = "sequential" THEN "sequential_matcher" ELSE "exhaustive_matcher")
      ELSE stage

\* Where main() continues after run_cmd has returned normally.
AfterStage(stage) ==
    CASE stage = "feature_extractor" -> "matcher"
      [] stage = "matcher"           -> "mapper"
      [] stage = "mapper"            -> "model_dir"
      [] stage = "model_converter"   -> "done"

\* run_cmd treating exit code 1 as a warning: only codes above 1 raise.
Raises_AboveOne(rc) == rc > 1

\* The paths each command passes: --database_path / --image_path /
\* --input_path as input, --database_path / --output_path as output.
StagePaths(stage) ==
    CASE stage = "feature_extractor" -> [input |-> "images", output |-> "out/database.db"]
      [] stage = "matcher"           -> [input |-> "out/database.db", output |-> "out/database.db"]
      [] stage = "mapper"            -> [input |-> "images", output |-> "out/sparse"]
      [] stage = "model_converter"   -> [input |-> "out/sparse/0", output |-> "out/sparse/0"]

\* The path of model_dir = sparse_dir / "0", whose existence main() tests.
ModelDir == "out/sparse/0"

\* run_cmd without the returncode check.
Raises_Never(rc) == FALSE

\* run_cmd: if proc.returncode != 0: ... raise RuntimeError
Raises(rc) == rc # 0

\* The try block opened one call too early, around the mapper as well.
Caught_Mapper(stage) == stage \in {"mapper", "model_converter"}

\* The converter called without try/except.
Caught_None(stage) == FALSE

\* try: run_cmd(converter_cmd) except Exception: the only call whose
\* RuntimeError main() catches.
Caught(stage) == stage = "model_converter"

\* The converter retried after a caught failure.
AfterCaught_Retry(stage) == stage

\* Where main() continues after the except block has handled the error.
AfterCaught(stage) == "done"

\* The converter run whether or not sparse/0 exists.
ConverterAttempted_Always(f) == TRUE

\* if model_dir.exists(): the converter is run
ConverterAttempted(f) == ModelDirExists(f)

\* What a colmap subcommand leaves on disk when it writes its output:
\* feature_extractor and the matchers write database.db, mapper writes the
\* binary model into sparse/0, model_converter writes the text model next
\* to it (--output_type TXT, same input and output path).
ColmapWrites(f, stage, wrote) ==
    IF ~wrote THEN f
    ELSE CASE stage \in {"feature_extractor", "matcher"} -> [f EXCEPT !.db = "new"]
           [] stage = "mapper"          -> [f EXCEPT !.model_bin = "new"]
           [] stage = "model_converter" -> [f EXCEPT !.model_txt = "new"]

\* A subcommand that ends with exit code 0 has written its output, except
\* the mapper, which also ends with 0 when it finds no reconstruction.
MustWrite(stage, rc) == rc = 0 /\ stage # "mapper"

\* colmap = ensure_colmap()
ResolveColmap ==
    /\ tool = "run_colmap" /\ pc = "start"
    /\ IF ensure_colmap(path) = ""
         THEN Exit(UncaughtExit, "FileNotFoundError") /\ UNCHANGED exe
         ELSE /\ exe' = ensure_colmap(path)
              /\ pc' = "validate"
              /\ UNCHANGED <<out, exit_status>>
    /\ UNCHANGED <<tool, args, path, argv, fs, fs0, calls, rcs, frames>>

\* if not images.exists(): return 1
ValidateImages ==
    /\ tool = "run_colmap" /\ pc = "validate"
    /\ IF ImagesMissing(fs)
         THEN Exit(1, "images folder not found")
         ELSE pc' = "mkdir" /\ UNCHANGED <<out, exit_status>>
    /\ UNCHANGED <<tool, args, path, argv, fs, fs0, exe, calls, rcs, frames>>

\* out_root.mkdir(parents=True, exist_ok=True); sparse_dir.mkdir(exist_ok=True)
MakeOutputDirs ==
    /\ tool = "run_colmap" /\ pc = "mkdir"
    /\ fs' = MkdirSparse(fs)
    /\ pc' = Stages[1]
    /\ UNCHANGED <<tool, args, path, argv, fs0, exe, calls, rcs, frames, out, exit_status>>

\* run_cmd: print("Running:", ...); subprocess.run(cmd, ...) is entered
StartStage ==
    /\ tool = "run_colmap" /\ pc \in StageSet /\ ~Running
    /\ calls' = Append(calls, StageCmd(pc, args))
    /\ argv' = Append(argv, StagePaths(pc))
    /\ out' = Append(out, "Running")
    /\ UNCHANGED <<tool, args, path, fs, fs0, pc, exe, rcs, frames, exit_status>>

\* run_cmd: subprocess.run returns with rc; run_cmd returns or raises, and
\* main() goes on, catches the error (model_converter) or dies of it.
StageReturns ==
    /\ tool = "run_colmap" /\ pc \in StageSet /\ Running
    /\ \E rc \in RetCodes, wrote \in BOOLEAN :
          /\ MustWrite(pc, rc) => wrote
          /\ rcs' = Append(rcs, rc)
          /\ fs' = ColmapWrites(fs, pc, wrote)
          /\ IF ~Raises(rc)
               THEN pc' = AfterStage(pc) /\ UNCHANGED <<out, exit_status>>
               ELSE IF Caught(pc)
                 THEN /\ pc' = AfterCaught(pc)
                      /\ out' = Append(out, "model_converter failed (bin is still usable)")
                      /\ UNCHANGED exit_status
                 ELSE Exit(UncaughtExit, "RuntimeError")
    /\ UNCHANGED <<tool, args, path, argv, fs0, exe, calls, frames>>

\* model_dir = sparse_dir / "0"; if model_dir.exists():
CheckModelDir ==
    /\ tool = "run_colmap" /\ pc = "model_dir"
    /\ pc' = IF ConverterAttempted(fs) THEN "model_converter" ELSE "done"
    /\ UNCHANGED <<tool, args, path, argv, fs, fs0, exe, calls, rcs, frames, out, exit_status>>

\* print("Done. Sparse model at: ..."); return 0
Done ==
    /\ tool = "run_colmap" /\ pc = "done"
    /\ Exit(0, "Done")
    /\ UNCHANGED <<tool, args, path, argv, fs, fs0, exe, calls, rcs, frames>>

ReconstructionRunner ==
    \/ ResolveColmap
    \/ ValidateImages
    \/ MakeOutputDirs
    \/ StartStage
    \/ StageReturns
    \/ CheckModelDir
    \/ Done

----------------------------------------------------------------------------

Next == FrameExtractor \/ ReconstructionRunner

Spec == Init /\ [][Next]_vars

TypeOK ==
    /\ tool \in {"prepare_video", "run_colmap"}
    /\ fs.frame \in [FrameIdx -> Tags]
    /\ fs.db \in Tags /\ fs.model_bin \in Tags /\ fs.model_txt \in Tags
    /\ Len(rcs) <= Len(calls) /\ Len(calls) <= Len(rcs) + 1
    /\ \A i \in 1..Len(rcs) : rcs[i] \in RetCodes
    /\ frames \subseteq FrameIdx
    /\ Len(exit_status) <= 1
    /\ Exited <=> pc = "exited"

----------------------------------------------------------------------------
(* Properties of the Frame Extractor *)

IsExtractor == tool = "prepare_video"
IsRunner == tool = "run_colmap"

\* The message the process printed last.
LastOut == out[Len(out)]

\* The frame files this run's extraction has written.
WrittenNow == {i \in FrameIdx : fs.frame[i] = "new"}

\* C1: a run without --overwrite on an images directory that already holds
\* a frame file never starts the extraction subprocess, leaves the frame
\* files of the directory exactly as they were, and exits with code 1.
C1_GuardProtectsFrames ==
    (IsExtractor /\ ~args.overwrite /\ Glob(fs0) # {}) =>
        /\ calls = <<>>
        /\ fs.frame = fs0.frame
        /\ fs.images_dir = fs0.images_dir
        /\ Exited => ExitCode = 1

\* C1 witness: the guard itself has ended such a run.
C1_Witness ==
    /\ IsExtractor /\ ~args.overwrite /\ Glob(fs0) # {}
    /\ Exited /\ LastOut = "frames exist, use --overwrite"

\* C2: a successful run with --overwrite has replaced every frame file that
\* existed before it, and the reported frame count is the number of frames
\* this run has written.
C2_OverwriteCountsOnlyNewFrames ==
    (IsExtractor /\ args.overwrite /\ Exited /\ ExitCode = 0) =>
        /\ \A i \in Glob(fs0) : fs.frame[i] = "new"
        /\ ReportedCount = Cardinality(WrittenNow)

\* C6: the exit code of the Frame Extractor: 1 for a missing video, for a
\* guard abort and for no frame file found after a zero-exit extraction;
\* the tool's own code when the extraction returns non-zero; 0 exactly when
\* the extraction returned 0 and frame files were found.
C6_ExitCodeTable ==
    (IsExtractor /\ Exited) =>
        /\ (exe # "" /\ ~fs0.video) => ExitCode = 1
        /\ (exe # "" /\ fs0.video /\ ~args.overwrite /\ Glob(fs0) # {}) => ExitCode = 1
        /\ (rcs # <<>> /\ rcs[1] # 0) => ExitCode = rcs[1]
        /\ (rcs = <<0>> /\ Glob(fs) = {}) => ExitCode = 1
        /\ (ExitCode = 0) <=> (rcs = <<0>> /\ Glob(fs) # {} /\ LastOut = "frames generated")

\* C6 witness: a failed extraction has ended the run with a code above 1.
C6_Witness ==
    /\ IsExtractor /\ Exited /\ rcs # <<>> /\ rcs[1] > 1 /\ ExitCode = rcs[1]

\* C7: a run whose extraction subprocess returned 0 without writing any
\* frame file exits with code 1, with or without --overwrite.
C7_SilentNoOutputFails ==
    (IsExtractor /\ Exited /\ rcs = <<0>> /\ WrittenNow = {}) => ExitCode = 1

----------------------------------------------------------------------------
(* Properties of both tools *)

\* No candidate of the tool's executable exists.
ToolNotFound ==
    \/ IsExtractor /\ ~path.which_ffmpeg
    \/ IsRunner /\ path.colmap = {} /\ ~path.which_colmap

\* The required input path does not exist.
InputMissing ==
    \/ IsExtractor /\ ~fs0.video
    \/ IsRunner /\ ~fs0.images

\* C8: when the executable cannot be resolved the run fails right there:
\* no subprocess is started, nothing is created or written, the filesystem
\* is the one the run started with, and the exit code is not 0.
C8_ToolNotFoundLeavesNoTrace ==
    ToolNotFound =>
        /\ pc \in {"start", "exited"}
        /\ calls = <<>>
        /\ fs = fs0
        /\ Exited => ExitCode # 0

\* C8 witness: the Frame Extractor has failed for want of ffmpeg, with an
\* output root that does not exist yet.
C8_Witness ==
    /\ IsExtractor /\ ToolNotFound /\ Exited
    /\ LastOut = "FileNotFoundError" /\ ~fs0.out_root

\* C9: when the input video or the input image directory does not exist,
\* no subprocess is ever started and the run exits with code 1.
C9_InvalidInputStartsNothing ==
    InputMissing =>
        /\ calls = <<>>
        /\ Exited => ExitCode = 1

\* C9 witness: the Reconstruction Runner has resolved colmap and rejected
\* the missing image directory.
C9_Witness ==
    /\ IsRunner /\ InputMissing /\ Exited
    /\ exe # "" /\ LastOut = "images folder not found"

----------------------------------------------------------------------------
(* Properties of the Reconstruction Runner *)

\* The subcommands of a full run, in pipeline order.
Pipeline ==
    << "feature_extractor",
       IF args.matcher = "sequential" THEN "sequential_matcher" ELSE "exhaustive_matcher",
       "mapper",
       "model_converter" >>

\* Some returned invocation of subcommand c ended with a non-zero code.
Failed(c) == \E i \in 1..Len(rcs) : calls[i] = c /\ rcs[i] # 0

\* Subcommand c has been started.
Started(c) == \E i \in 1..Len(calls) : calls[i] = c

Printed(m) == \E i \in 1..Len(out) : out[i] = m

\* C3: a Reconstruction Runner run that exits with code 0 leaves
\* database.db and a sparse/0 directory with the binary model in the
\* output root.
C3_SuccessHasModel ==
    (IsRunner /\ Exited /\ ExitCode = 0) =>
        /\ fs.db # "none"
        /\ ModelDirExists(fs)

\* C4: once the mapper has returned a non-zero code, model_converter is
\* never started, Done is never printed and the process has exited with a
\* non-zero code.
C4_MapperFailureIsFatal ==
    (IsRunner /\ Failed("mapper")) =>
        /\ ~Started("model_converter")
        /\ ~Printed("Done")
        /\ Exited /\ ExitCode # 0

\* C4 witness: the mapper has failed after both earlier stages succeeded.
C4_Witness ==
    /\ IsRunner /\ Failed("mapper") /\ Len(rcs) = 3 /\ Exited

C10_StageOrder ==
    IsRunner =>
        /\ Len(calls) <= Len(Pipeline)
        /\ \A i \in 1..Len(calls) : calls[i] = Pipeline[i]
        /\ \A i \in 2..Len(calls) : Len(rcs) >= i - 1 /\ rcs[i - 1] = 0
        /\ \A i \in 1..Len(rcs) : (i <= 3 /\ rcs[i] # 0) =>
              /\ Len(calls) = i
              /\ Exited /\ ExitCode # 0 /\ ~Printed("Done")
        /\ (Len(rcs) = 4 /\ rcs[4] # 0) =>
              /\ pc \in {"done", "exited"}
              /\ Exited => (ExitCode = 0 /\ Printed("Done"))

\* C10 witness: all four stages have run, the last one failed, and the run
\* has ended with Done.
C10_Witness ==
    /\ IsRunner /\ Len(rcs) = 4 /\ rcs[4] # 0 /\ args.matcher = "exhaustive"
    /\ Exited /\ Printed("Done")

\* C11: the exit code of the Reconstruction Runner: 1 when the image
\* directory is missing, non-zero whenever feature extraction, matching or
\* mapping returned a non-zero code, 0 when Done is reported; and 0 only
\* when all three of those stages returned 0.
C11_RunnerExitCodes ==
    (IsRunner /\ Exited) =>
        /\ (exe # "" /\ ~fs0.images) => ExitCode = 1
        /\ (\A i \in 1..Len(rcs) : (i <= 3 /\ rcs[i] # 0) => ExitCode # 0)
        /\ Printed("Done") => ExitCode = 0
        /\ (ExitCode = 0) =>
              /\ Len(rcs) >= 3
              /\ \A i \in 1..3 : rcs[i] = 0
              /\ Printed("Done")

\* C11 witness: the matcher has ended a run with exit code 1.
C11_Witness ==
    /\ IsRunner /\ Exited /\ Len(rcs) = 2 /\ rcs[2] = 1 /\ ExitCode # 0

\* C12: ensure_colmap returns the first existing candidate in the order
\* COLMAP.bat, bin/colmap.exe, bin/colmap, PATH lookup; a later candidate
\* only when every earlier one is absent; it fails exactly when none of the
\* four resolves.
C12_ResolutionOrder ==
    (IsRunner /\ pc # "start") =>
        LET bat == "tools/colmap/COLMAP.bat" \in path.colmap
            win == "tools/colmap/bin/colmap.exe" \in path.colmap
            bin == "tools/colmap/bin/colmap" \in path.colmap
            sys == path.which_colmap
        IN  /\ bat => exe = "tools/colmap/COLMAP.bat"
            /\ (~bat /\ win) => exe = "tools/colmap/bin/colmap.exe"
            /\ (~bat /\ ~win /\ bin) => exe = "tools/colmap/bin/colmap"
            /\ (~bat /\ ~win /\ ~bin /\ sys) => exe = "PATH/colmap"
            /\ (~bat /\ ~win /\ ~bin /\ ~sys) <=>
                  (exe = "" /\ Exited /\ calls = <<>> /\ LastOut = "FileNotFoundError")

\* C12 witness: bin/colmap was resolved although the PATH also has a colmap,
\* the two earlier candidates being absent.
C12_Witness ==
    /\ IsRunner /\ pc # "start"
    /\ path.colmap = {"tools/colmap/bin/colmap"} /\ path.which_colmap
    /\ exe = "tools/colmap/bin/colmap"

\* The invocations of subcommand c started so far.
CallsOf(c) == {i \in 1..Len(calls) : calls[i] = c}

\* The mapper has returned with exit code 0.
MapperSucceeded == \E i \in 1..Len(rcs) : calls[i] = "mapper" /\ rcs[i] = 0

\* C13: model_converter is started exactly when sparse/0 exists once the
\* mapper has returned successfully: then once, right after the mapper,
\* with sparse/0 as both input and output path; never when sparse/0 is
\* absent.
C13_ConversionIffModelDir ==
    IsRunner =>
        /\ Cardinality(CallsOf("model_converter")) <= 1
        /\ \A i \in CallsOf("model_converter") :
              /\ i > 1 /\ calls[i - 1] = "mapper" /\ rcs[i - 1] = 0
              /\ ModelDirExists(fs)
              /\ argv[i].input = ModelDir /\ argv[i].output = ModelDir
        /\ (MapperSucceeded /\ pc \in {"done", "exited"}) =>
              (Started("model_converter") <=> ModelDirExists(fs))

\* C13 witness: the converter has run once on the model the mapper wrote
\* in this run, and the run has ended.
C13_Witness ==
    /\ IsRunner /\ Exited /\ MapperSucceeded
    /\ Cardinality(CallsOf("model_converter")) = 1
    /\ fs0.model_bin = "none" /\ fs.model_bin = "new"

\* C14: no retries: the Frame Extractor starts at most one subprocess, the
\* Reconstruction Runner starts each of its four stages at most once,
\* whatever exit codes come back.
C14_NoRetries ==
    /\ IsExtractor => Len(calls) <= 1
    /\ IsRunner =>
          /\ \A i, j \in 1..Len(calls) : (calls[i] = calls[j]) => (i = j)
          /\ Cardinality(CallsOf("sequential_matcher") \cup CallsOf("exhaustive_matcher")) <= 1
          /\ Len(calls) <= 4

\* C14 witness: the converter has failed and the run has ended with four
\* invocations in all.
C14_Witness ==
    /\ IsRunner /\ Exited /\ Len(calls) = 4 /\ rcs[4] = MaxRc

\* C16: a run whose input video or input image directory is missing never
\* changes the filesystem: no output root, images directory or sparse
\* directory is created.
C16_InvalidInputCreatesNothing ==
    InputMissing =>
        /\ fs = fs0
        /\ fs.out_root = fs0.out_root
        /\ fs.images_dir = fs0.images_dir
        /\ fs.sparse = fs0.sparse

\* C16 witness: the Frame Extractor has rejected a missing video with an
\* output root that does not exist.
C16_Witness ==
    /\ IsExtractor /\ InputMissing /\ Exited
    /\ exe # "" /\ LastOut = "video not found" /\ ~fs.out_root /\ ~fs.images_dir

----------------------------------------------------------------------------
(* Termination *)

\* The interpreter keeps executing and every subprocess started eventually
\* returns.
FairSpec == Spec /\ WF_vars(Next)

\* C15: when every subprocess returns, every run reaches a terminal state;
\* and there is no timeout or cancellation: while a subprocess has not
\* returned, the only step of the run is that subprocess returning.
C15_Termination ==
    /\ <>Exited
    /\ [][ (Len(calls) > Len(rcs)) =>
              (Len(rcs') = Len(rcs) + 1 /\ calls' = calls) ]_vars
    /\ [](Len(calls) > Len(rcs) => ~Exited)

\* C15 witness: the Frame Extractor has ended after its subprocess returned.
C15_Witness ==
    /\ IsExtractor /\ Exited /\ Len(rcs) = 1 /\ Len(calls) = 1 /\ ExitCode = 0

====
